---- MODULE Spec2Model ----
(***************************************************************************)
(* State-machine model of the USBUART relay engine (core.cpp):             *)
(* file_channel / pipe_channel, context::backend and the context facade.   *)
(* The USB backend (libusb) and the descriptors are the environment: the   *)
(* outcome of every read(2), write(2), poll(2), submission and completion  *)
(* is an input of the action that models the handler.                      *)
(***************************************************************************)
EXTENDS Integers, Sequences, FiniteSets, TLC

(* ------------------------------ bounds -------------------------------- *)
\* channel objects that can be created in one behaviour
MaxChan == 2
\* chunk_size of the modelled driver, scaled down (the drivers use 64 / 256)
ChunkSize == 2
\* payload bytes the device sends per channel
MaxIn == 3
\* bytes the application supplies on fd_read per channel
MaxOut == 2
\* bytes recorded as written to fd_write per channel
MaxFdw == 3
\* bytes recorded as accepted by the device per channel
MaxDevIn == 3
\* the same where the life cycle of a channel is followed
LifeIn == 1
LifeOut == 1
\* the same per channel where several channels run
ManyIn == 0
ManyOut == 0
\* bytes the device sends and the application supplies on a channel relaying both ways
DuplexIn == 2
DuplexOut == 1
\* how far below zero the reader count of the rwlock is followed
MaxSkew == 2
\* an FTDI channel: chunk_size, payload bytes sent, bytes fd_write is seen to take
FtdiChunk == 4
FtdiIn == 2
FtdiFdw == 2
\* interface numbers asked of a driver factory: 0..MaxIfc
MaxIfc == 4

(* ------------------------- program constants -------------------------- *)
\* error_t
success == 0
no_channels == 1
not_implemented == 2
invalid_param == 3
no_channel == 4
no_access == 5
not_supported == 6
no_device == 7
interface_busy == 9
bad_baudrate == 13
io_error == 16
fcntl_error == 17
poll_error == 18
pipe_error == 19
out_of_memory == 20
\* errno
EINTR == 4
EIO == 5
EAGAIN == 11
EACCES == 13
EBUSY == 16
EINVAL == 22
EPIPE == 32
\* usbuart::size_t is uint16_t
SizeMod == 65536
\* parity_t::space, stop_bits_t::two, flow_control_t::xon_xoff
parity_space == 4
stop_bits_two == 2
xon_xoff == 3

\* the passes ~backend makes at most
N == 5
\* ftdi::set_baudrate_req, ftdi::high_clk, ftdi::low_clk
set_baudrate_req == 3
high_clk == 120000000
low_clk == 48000000

\* status_t
read_pipe_ok == 1
write_pipe_ok == 2
usb_dev_ok == 4

Chan == 1..MaxChan
\* transfer indices: 0, 1 are readxfer0, readxfer1; 2 is writexfer
WR == 2
Garbage == -1
StatusByte == 0

COMPLETED == "COMPLETED"
TIMED_OUT == "TIMED_OUT"
CANCELLED == "CANCELLED"
NO_DEVICE == "NO_DEVICE"
STALL == "STALL"
OVERFLOW == "OVERFLOW"
ERROR == "ERROR"

VARIABLES
    chan,         \* [Chan -> file_channel object, its transfers and their backend state]
    h,            \* [Chan -> observations: bytes written, bytes accepted, ...]
    child_list,   \* context::backend::child_list
    delete_list,  \* context::backend::delete_list
    poll_list,    \* context::backend::poll_list, entries [fd, events, revents]
    pending,      \* context::backend::pending
    pc,           \* position of the thread inside context::loop or ~backend
    it,           \* iterator of handle_pending_events; in ~backend its counter i
    result,       \* local `result` of context::loop; at pc = "ret" what loop() returns
    perr,         \* errno of the poll(2) that failed in this loop() call, else 0
    api           \* the last facade call and what it returned

vars == <<chan, h, child_list, delete_list, poll_list, pending, pc, it, result,
          perr, api>>

(* ------------------------------ helpers ------------------------------- *)
Min(a, b) == IF a < b THEN a ELSE b
Max(a, b) == IF a > b THEN a ELSE b
Has(seq, x) == \E k \in 1..Len(seq) : seq[k] = x
\* util::erase: std::remove + erase, every occurrence
Erase(seq, x) == SelectSeq(seq, LAMBDA e : e # x)
ErasePoll(seq, fd) == SelectSeq(seq, LAMBDA e : e.fd # fd)
HasPoll(seq, fd) == \E k \in 1..Len(seq) : seq[k].fd = fd
RemoveAt(seq, k) == [j \in 1..(Len(seq) - 1) |-> IF j < k THEN seq[j] ELSE seq[j + 1]]
\* byte j (1-based) of a buffer; past the allocation the content is not defined
ByteAt(buf, j) == IF j >= 1 /\ j <= Len(buf) THEN buf[j] ELSE Garbage

NoChannel ==
    [st |-> "none", kind |-> "file", fdrd |-> -1, fdrw |-> -1, exrd |-> -1, exrw |-> -1,
     hdr |-> 0,           \* where the driver's read_callback puts readpos
     chunk |-> ChunkSize, \* chunksize()
     errors |-> {},       \* ftdi::errors
     rline |-> [i \in 0..1 |-> {}],   \* the status_bit set in buffer[1] of readxfer i
     readpos |-> [i \in 0..1 |-> 0],
     readxfer_busy |-> [i \in 0..1 |-> FALSE],
     writexfer_busy |-> FALSE,
     current |-> 0,
     pipein_ready |-> FALSE, pipeout_ready |-> FALSE,
     pipein_hangup |-> FALSE, pipeout_hangup |-> FALSE, device_hangup |-> FALSE,
     rbuf |-> [i \in 0..1 |-> [j \in 1..ChunkSize |-> Garbage]],
     ralen |-> [i \in 0..1 |-> 0],
     wbuf |-> [j \in 1..ChunkSize |-> Garbage],
     wlen |-> 0, walen |-> 0,
     usb |-> [t \in 0..2 |-> "idle"]]

NoHistory ==
    [fdw |-> <<>>,        \* bytes written to fd_write, in order
     devin |-> <<>>,      \* bytes the device accepted on the OUT endpoint, in order
     din |-> 0,           \* payload bytes delivered by successful IN completions
     rin |-> 0,           \* bytes read from fd_read
     closed |-> FALSE,    \* context.close(ch) has returned for this channel
     atclose |-> {},      \* transfers in flight when context.close(ch) ran
     cancelreq |-> {},    \* in-flight transfers libusb_cancel_transfer was called on
     late_io |-> FALSE,   \* a read(2), write(2) or submission after context.close
     fatal |-> FALSE,     \* a transfer completed NO_DEVICE, ERROR, STALL or OVERFLOW
     made |-> {},         \* the descriptors ::pipe created for the channel
     closes |-> <<>>,     \* the descriptors its destructor called ::close on, in order
     whdr |-> FALSE,      \* a write(2) started below the payload offset of a transfer
     wshort |-> FALSE]    \* a write(2) took bytes of a transfer shorter than that offset

\* the part of the state the handlers of a channel and of the backend work on
Cur == [chan |-> chan, h |-> h, child_list |-> child_list, delete_list |-> delete_list,
        poll_list |-> poll_list, pending |-> pending, ub |-> FALSE]

Set(s) ==
    /\ chan' = s.chan
    /\ h' = s.h
    /\ child_list' = s.child_list
    /\ delete_list' = s.delete_list
    /\ poll_list' = s.poll_list
    /\ pending' = s.pending

Busy(ch, t) == IF t = WR THEN ch.writexfer_busy ELSE ch.readxfer_busy[t]

\* file_channel::busy looking at the OUT transfer only
busy_out_only(ch) == ch.writexfer_busy

\* file_channel::busy
busy(ch) == ch.writexfer_busy \/ ch.readxfer_busy[0] \/ ch.readxfer_busy[1]

(* ------------------------- context::backend --------------------------- *)
\* context::backend::request_removal(child) without the search of delete_list
backend_request_removal_unchecked(s, c) ==
    [s EXCEPT !.child_list = Erase(@, c),
              !.delete_list = Append(@, c)]

\* context::backend::request_removal(child)
backend_request_removal(s, c) ==
    [s EXCEPT !.child_list = Erase(@, c),
              !.delete_list = IF Has(@, c) THEN @ ELSE Append(@, c)]

\* context::backend::poll_request(int fd, short events) without the search of
\* poll_list
backend_poll_request_unchecked(s, fd, events) ==
    [s EXCEPT !.poll_list = Append(@, [fd |-> fd, events |-> events, revents |-> {}])]

\* context::backend::poll_request(int fd, short events)
backend_poll_request(s, fd, events) ==
    IF HasPoll(s.poll_list, fd) THEN s
    ELSE [s EXCEPT !.poll_list = Append(@, [fd |-> fd, events |-> events, revents |-> {}])]

(* ---------------------------- file_channel ---------------------------- *)
\* file_channel::poll_request(int fd, bool reading)
poll_request(s, fd, reading) ==
    backend_poll_request(s, fd, IF reading THEN {"IN", "HUP"} ELSE {"OUT", "HUP"})

\* libusb_cancel_transfer: only a transfer in flight is cancelled
libusb_cancel_transfer(u) == IF u = "submitted" THEN "cancelling" ELSE u

\* file_channel::close
file_channel_close(s, c) ==
    LET ch == s.chan[c]
        hit == {t \in 0..2 : Busy(ch, t)}
    IN [s EXCEPT !.chan[c].usb = [t \in 0..2 |-> IF t \in hit
                                                 THEN libusb_cancel_transfer(ch.usb[t])
                                                 ELSE ch.usb[t]],
                 !.chan[c].pipein_hangup = TRUE,
                 !.chan[c].pipeout_hangup = TRUE,
                 !.h[c].cancelreq = @ \cup {t \in hit : ch.usb[t] # "idle"}]

\* file_channel::request_removal(bool enforce) without device_hangup in its test
request_removal_pipes_only(s, c, enforce) ==
    LET s1 == [s EXCEPT !.chan[c].device_hangup = @ \/ enforce]
        ch == s1.chan[c]
    IN IF ch.pipein_hangup /\ ch.pipeout_hangup
       THEN backend_request_removal(file_channel_close(s1, c), c)
       ELSE s1

\* file_channel::request_removal(bool enforce)
request_removal(s, c, enforce) ==
    LET s1 == [s EXCEPT !.chan[c].device_hangup = @ \/ enforce]
        ch == s1.chan[c]
    IN IF ch.device_hangup \/ (ch.pipein_hangup /\ ch.pipeout_hangup)
       THEN backend_request_removal(file_channel_close(s1, c), c)
       ELSE s1

\* file_channel::submit_transfer; ok is the outcome of libusb_submit_transfer
submit_transfer(s, c, t, ok) ==
    IF ok /\ s.chan[c].usb[t] = "idle"
    THEN [s |-> [s EXCEPT !.chan[c].usb[t] = "submitted",
                          !.h[c].late_io = @ \/ s.h[c].closed],
          ret |-> TRUE]
    ELSE [s |-> request_removal(s, c, TRUE), ret |-> FALSE]

\* file_channel::is_error, with the errno it reads
is_error(s, c, res, errno) ==
    IF errno = EAGAIN \/ errno = EINTR THEN [s |-> s, ret |-> FALSE]
    ELSE IF errno = 0 /\ res = 0 THEN [s |-> s, ret |-> FALSE]
    ELSE [s |-> request_removal(s, c, FALSE), ret |-> TRUE]

\* file_channel::submit(size)
submit(s, c, size, ok) ==
    LET s1 == [s EXCEPT !.chan[c].wlen = size]
        r == submit_transfer(s1, c, WR, ok)
    IN [r.s EXCEPT !.chan[c].writexfer_busy = r.ret]

\* file_channel::readpipe; rd = [n, errno] is the outcome of read(2) for a
\* non-empty request, ok the outcome of the submission
readpipe(s, c, rd, ok) ==
    LET ch == s.chan[c]
        \* getwritebuff
        size == IF ch.writexfer_busy THEN 0 ELSE ch.chunk
        res == IF size = 0 THEN 0 ELSE Min(rd.n, size)
        got == IF res > 0 THEN res ELSE 0
        s1 == [s EXCEPT !.chan[c].wbuf = [j \in 1..ch.chunk |->
                                            IF j <= got THEN s.h[c].rin + j ELSE @[j]],
                        !.h[c].rin = @ + got,
                        !.h[c].late_io = @ \/ s.h[c].closed]
        e == is_error(s1, c, res, rd.errno)
    IN IF res <= 0 /\ e.ret THEN [e.s EXCEPT !.chan[c].pipein_hangup = TRUE]
       ELSE IF res > 0 THEN submit(s1, c, res, ok)
       ELSE IF res = 0 THEN [s1 EXCEPT !.chan[c].pipein_hangup = TRUE]
       ELSE poll_request(s1, ch.fdrd, TRUE)

\* file_channel::consumed without the test pos >= actual_length
consumed_at_once(s, c, i, size, ok) ==
    IF s.chan[c].readxfer_busy[i] THEN [s |-> s, ret |-> FALSE]
    ELSE LET pos == (s.chan[c].readpos[i] + size) % SizeMod
             s1 == [s EXCEPT !.chan[c].readpos[i] = pos]
             r == submit_transfer(s1, c, i, ok)
         IN [s |-> [r.s EXCEPT !.chan[c].readxfer_busy[i] = r.ret,
                              !.chan[c].current = 1 - i],
             ret |-> TRUE]

\* file_channel::consumed
consumed(s, c, i, size, ok) ==
    IF s.chan[c].readxfer_busy[i] THEN [s |-> s, ret |-> FALSE]
    ELSE LET pos == (s.chan[c].readpos[i] + size) % SizeMod
             s1 == [s EXCEPT !.chan[c].readpos[i] = pos]
         IN IF pos >= s.chan[c].ralen[i]
            THEN LET r == submit_transfer(s1, c, i, ok)
                 IN [s |-> [r.s EXCEPT !.chan[c].readxfer_busy[i] = r.ret,
                                      !.chan[c].current = 1 - i],
                     ret |-> TRUE]
            ELSE [s |-> s1, ret |-> FALSE]

\* file_channel::writepipe(transfer); wr = [n, errno] is the outcome of write(2)
writepipe(s, c, i, wr, ok) ==
    LET ch == s.chan[c]
        \* getreadbuff
        size == IF ch.readxfer_busy[i] THEN 0
                ELSE (ch.ralen[i] - ch.readpos[i]) % SizeMod
        res == IF wr.n > 0 THEN Min(wr.n, size) ELSE wr.n
        got == IF res > 0 THEN res ELSE 0
        s1 == [s EXCEPT !.h[c].fdw = @ \o [j \in 1..got |->
                                             ByteAt(ch.rbuf[i], ch.readpos[i] + j)],
                        !.h[c].whdr = @ \/ (got > 0 /\ ch.readpos[i] < ch.hdr),
                        !.h[c].wshort = @ \/ (got > 0 /\ ch.ralen[i] < ch.hdr),
                        !.h[c].late_io = @ \/ s.h[c].closed]
        e == is_error(s1, c, res, wr.errno)
    IN IF size = 0 THEN s
       ELSE IF res <= 0 /\ e.ret THEN [e.s EXCEPT !.chan[c].pipeout_hangup = TRUE]
       ELSE IF res > 0
            THEN LET k == consumed(s1, c, i, res, ok)
                 IN IF k.ret THEN k.s ELSE poll_request(k.s, ch.fdrw, FALSE)
            ELSE s1

\* file_channel::events
events(s, c, rd, wr, ok) ==
    LET s1 == IF s.chan[c].pipein_ready THEN readpipe(s, c, rd, ok) ELSE s
    IN IF s1.chan[c].pipeout_ready THEN writepipe(s1, c, s1.chan[c].current, wr, ok)
       ELSE s1

\* file_channel::set_events assigning the hang-up flag from POLLHUP instead of
\* only setting it
set_events_level(s, c, revents, read) ==
    LET s1 == [s EXCEPT !.chan[c].pipein_ready = @ \/ ("IN" \in revents),
                        !.chan[c].pipeout_ready = @ \/ ("OUT" \in revents)]
        s2 == IF read THEN [s1 EXCEPT !.chan[c].pipein_hangup = "HUP" \in revents]
              ELSE [s1 EXCEPT !.chan[c].pipeout_hangup = "HUP" \in revents]
    IN IF "HUP" \in revents THEN request_removal(s2, c, FALSE) ELSE s2

\* file_channel::set_events
set_events(s, c, revents, read) ==
    LET s1 == [s EXCEPT !.chan[c].pipein_ready = @ \/ ("IN" \in revents),
                        !.chan[c].pipeout_ready = @ \/ ("OUT" \in revents)]
    IN IF "HUP" \in revents
       THEN request_removal(IF read THEN [s1 EXCEPT !.chan[c].pipein_hangup = TRUE]
                                    ELSE [s1 EXCEPT !.chan[c].pipeout_hangup = TRUE],
                            c, FALSE)
       ELSE s1

\* file_channel::status with the tests of the two pipe flags exchanged
file_channel_status_swapped(ch) ==
    (IF ch.pipeout_hangup THEN 0 ELSE read_pipe_ok)
      + (IF ch.pipein_hangup THEN 0 ELSE write_pipe_ok)
      + (IF ch.device_hangup THEN 0 ELSE usb_dev_ok)

\* file_channel::status
file_channel_status(ch) ==
    (IF ch.pipein_hangup THEN 0 ELSE read_pipe_ok)
      + (IF ch.pipeout_hangup THEN 0 ELSE write_pipe_ok)
      + (IF ch.device_hangup THEN 0 ELSE usb_dev_ok)

\* file_channel::sendbreak: the error drv->sendbreak() throws; neither generic
\* nor ftdi implements it
sendbreak(ch) == not_implemented

\* file_channel::error_callback without request_removal for the severe errors
error_callback_lenient(s, c, t, status) ==
    LET s1 == IF t = WR THEN [s EXCEPT !.chan[c].writexfer_busy = FALSE]
              ELSE [s EXCEPT !.chan[c].readxfer_busy[t] = FALSE]
    IN IF status \in {CANCELLED, NO_DEVICE}
       THEN [s |-> request_removal(s1, c, TRUE), ret |-> FALSE]
       ELSE IF status \in {TIMED_OUT, COMPLETED} THEN [s |-> s1, ret |-> FALSE]
       ELSE [s |-> s1, ret |-> TRUE]

\* file_channel::error_callback
error_callback(s, c, t, status) ==
    LET s1 == IF t = WR THEN [s EXCEPT !.chan[c].writexfer_busy = FALSE]
              ELSE [s EXCEPT !.chan[c].readxfer_busy[t] = FALSE]
    IN IF status \in {CANCELLED, NO_DEVICE}
       THEN [s |-> request_removal(s1, c, TRUE), ret |-> FALSE]
       ELSE IF status \in {TIMED_OUT, COMPLETED} THEN [s |-> s1, ret |-> FALSE]
       ELSE [s |-> request_removal(s1, c, TRUE), ret |-> TRUE]

\* ftdi::error_mask
error_mask == {"overrun_error", "parity_error", "framing_error", "break_interrupt"}

\* driver::read_callback: generic sets pos = 0; ftdi skips the two status bytes and
\* keeps the error bits of the second
drv_read_callback(s, c, i) ==
    IF s.chan[c].hdr = 0 THEN [s EXCEPT !.chan[c].readpos[i] = 0]
    ELSE IF s.chan[c].ralen[i] < 2 THEN [s EXCEPT !.chan[c].ralen[i] = 0]
    ELSE [s EXCEPT !.chan[c].readpos[i] = 2,
                   !.chan[c].errors = @ \cup (s.chan[c].rline[i] \cap error_mask)]

\* file_channel::read_callback
read_callback(s, c, i, wr, ok) ==
    LET s1 == drv_read_callback(s, c, i)
        ch == s1.chan[c]
    IN IF ch.pipeout_hangup THEN s1
       ELSE IF ch.readpos[i] >= ch.ralen[i]
            THEN LET r == submit_transfer(s1, c, i, ok)
                 IN [r.s EXCEPT !.chan[c].readxfer_busy[i] = r.ret]
            ELSE writepipe([s1 EXCEPT !.chan[c].readxfer_busy[i] = FALSE], c, i, wr, ok)

\* file_channel::write_callback
write_callback(s, c, rd, ok) ==
    LET ch == s.chan[c]
    IN IF ch.pipein_hangup THEN s
       ELSE IF ch.walen < ch.wlen
            THEN LET moved == IF ch.walen # 0
                              THEN [j \in 1..ch.chunk |->
                                      IF j <= ch.wlen - ch.walen
                                      THEN ch.wbuf[j + ch.walen] ELSE ch.wbuf[j]]
                              ELSE ch.wbuf
                     r == submit_transfer([s EXCEPT !.chan[c].wbuf = moved], c, WR, ok)
                 IN [r.s EXCEPT !.chan[c].writexfer_busy = r.ret]
            ELSE readpipe([s EXCEPT !.chan[c].writexfer_busy = FALSE], c, rd, ok)

\* file_channel::read_cb
read_cb(s, c, i, status, wr, ok) ==
    IF status = COMPLETED THEN read_callback(s, c, i, wr, ok)
    ELSE LET e == error_callback(s, c, i, status)
         IN IF e.ret THEN read_callback(e.s, c, i, wr, ok) ELSE e.s

\* file_channel::write_cb
write_cb(s, c, status, rd, ok) ==
    IF status = COMPLETED THEN write_callback(s, c, rd, ok)
    ELSE LET e == error_callback(s, c, WR, status)
         IN IF e.ret THEN write_callback(e.s, c, rd, ok) ELSE e.s

(* ------------------------------ validate ------------------------------ *)
\* validate(const eia_tia_232_info&) without its baudrate test
validate_info_no_baudrate(i) ==
    IF i.databits < 5 \/ i.databits > 9 THEN invalid_param
    ELSE IF i.parity > parity_space THEN invalid_param
    ELSE IF i.stopbits > stop_bits_two THEN invalid_param
    ELSE IF i.flowcontrol > xon_xoff THEN invalid_param
    ELSE 0

\* validate(const eia_tia_232_info&): the error thrown, or 0
validate_info(i) ==
    IF i.databits < 5 \/ i.databits > 9 THEN invalid_param
    ELSE IF i.parity > parity_space THEN invalid_param
    ELSE IF i.stopbits > stop_bits_two THEN invalid_param
    ELSE IF i.flowcontrol > xon_xoff THEN invalid_param
    ELSE IF i.baudrate = 0 THEN invalid_param
    ELSE 0

\* validate(const channel&): fcntl(fd, F_GETFD) fails on a descriptor that is not open
validate_channel(x) == IF x[1] < 0 \/ x[2] < 0 THEN invalid_param ELSE 0

\* throw_error: the error thrown, or 0 when it returns
throw_error(err) ==
    LET e == IF err < 0 THEN -err ELSE err
    IN IF e = EAGAIN \/ e = EINTR THEN 0
       ELSE IF e = EBUSY THEN interface_busy
       ELSE IF e = EACCES THEN no_access
       ELSE io_error

(* ----------------------- context::backend, cont. ---------------------- *)
\* file_channel::equals / pipe_channel::equals
equals(ch, x) ==
    IF ch.kind = "pipe" THEN x[1] = ch.exrd \/ x[2] = ch.exrw
    ELSE x[1] = ch.fdrd \/ x[2] = ch.fdrw

\* context::backend::find(const channel&): the channel found (0: nullptr);
\* ub when the search dereferences a destroyed channel
RECURSIVE find_from(_, _, _)
find_from(s, x, k) ==
    IF k > Len(s.child_list) THEN [ret |-> 0, ub |-> FALSE]
    ELSE LET i == s.child_list[k]
         IN IF s.chan[i].st # "alive" THEN [ret |-> 0, ub |-> TRUE]
            ELSE IF equals(s.chan[i], x) /\ ~Has(s.delete_list, i)
                 THEN [ret |-> i, ub |-> FALSE]
                 ELSE find_from(s, x, k + 1)

backend_find(s, x) == find_from(s, x, 1)

\* file_channel::operator==(int fd) through util::find(child_list, pollfd)
RECURSIVE find_fd_from(_, _, _)
find_fd_from(s, fd, k) ==
    IF k > Len(s.child_list) THEN [ret |-> 0, ub |-> FALSE]
    ELSE LET i == s.child_list[k]
         IN IF s.chan[i].st # "alive" THEN [ret |-> 0, ub |-> TRUE]
            ELSE IF s.chan[i].fdrd = fd \/ s.chan[i].fdrw = fd
                 THEN [ret |-> i, ub |-> FALSE]
                 ELSE find_fd_from(s, fd, k + 1)

\* context::backend::close(const channel&)
backend_close(s, x) ==
    LET f == backend_find(s, x)
    IN IF f.ub THEN [s EXCEPT !.ub = TRUE]
       ELSE IF f.ret = 0 THEN s
       ELSE LET c == f.ret
                s1 == [s EXCEPT !.h[c].closed = TRUE,
                                !.h[c].atclose = {t \in 0..2 : s.chan[c].usb[t] # "idle"}]
            IN backend_request_removal(s1, c)

\* context::backend::cleanup
\* the descriptors ~pipe_channel and ~file_channel call ::close on, in order
destructor_closes(ch) ==
    IF ch.kind = "pipe" THEN <<ch.exrd, ch.fdrw, ch.fdrd, ch.exrw>> ELSE <<>>

RECURSIVE cleanup_from(_, _)
cleanup_from(s, k) ==
    IF k > Len(s.delete_list) THEN s
    ELSE LET c == s.delete_list[k]
         IN IF s.chan[c].st # "alive" THEN [s EXCEPT !.ub = TRUE]
            ELSE IF busy(s.chan[c]) THEN cleanup_from(s, k + 1)
            ELSE LET s1 == [s EXCEPT !.poll_list =
                                ErasePoll(ErasePoll(@, s.chan[c].fdrd), s.chan[c].fdrw)]
                     s2 == file_channel_close(s1, c)
                     s3 == [s2 EXCEPT !.chan[c] = [NoChannel EXCEPT !.st = "freed",
                                                                    !.usb = s2.chan[c].usb],
                                      !.h[c].closes = destructor_closes(s2.chan[c]),
                                      !.delete_list = RemoveAt(@, k)]
                 IN cleanup_from(s3, k)

cleanup(s) == cleanup_from(s, 1)

\* the scan of poll_events over its copy of the poll-list
RECURSIVE poll_scan(_, _, _, _)
poll_scan(s, items, k, polled) ==
    IF polled = 0 \/ k > Len(items) THEN s
    ELSE LET item == items[k]
             f == find_fd_from(s, item.fd, 1)
         IN IF f.ub THEN [s EXCEPT !.ub = TRUE]
            ELSE IF f.ret = 0 THEN poll_scan(s, items, k + 1, polled)
            ELSE IF item.revents # {}
                 THEN LET s1 == set_events(s, f.ret, item.revents,
                                           item.fd = s.chan[f.ret].fdrd)
                          s2 == [s1 EXCEPT !.poll_list = ErasePoll(@, item.fd),
                                           !.pending = TRUE]
                      IN poll_scan(s2, items, k + 1, polled - 1)
                 ELSE poll_scan(s, items, k + 1, polled)

\* context::backend::poll_events for a poll(2) that succeeded; rv[k] is the revents
\* poll(2) stores in entry k of the array it was given
poll_events(s, rv) ==
    LET pollfd_list == s.poll_list
        polled == Cardinality({k \in 1..Len(s.poll_list) : rv[k] # {}})
        s1 == [s EXCEPT !.poll_list = [k \in 1..Len(@) |-> [@[k] EXCEPT !.revents = rv[k]]]]
    IN poll_scan(s1, pollfd_list, 1, polled)

\* context::backend::poll_events for a poll(2) that failed with errno:
\* the error thrown, or 0 when it returns polled
poll_events_failed(polled, errno) ==
    IF polled = EINVAL THEN poll_error ELSE throw_error(errno)

\* file_channel::init; ok: the submissions succeed; rd: the outcome of read(2)
init(s, c, rd, ok) ==
    LET r0 == submit_transfer(s, c, 0, ok)
        s0 == [r0.s EXCEPT !.chan[c].readxfer_busy[0] = r0.ret]
        r1 == submit_transfer(s0, c, 1, ok)
        s1 == [r1.s EXCEPT !.chan[c].readxfer_busy[1] = r1.ret]
    IN readpipe(s1, c, rd, ok)

(* ----------------------------- environment --------------------------- *)
\* outcomes of read(2) on fd_read: n bytes, end of file (errno as left by an
\* earlier call), or -1 with errno
ReadOutcomes ==
    {[n |-> k, errno |-> 0] : k \in 1..ChunkSize}
      \cup {[n |-> 0, errno |-> e] : e \in {0, EIO}}
      \cup {[n |-> -1, errno |-> e] : e \in {EAGAIN, EINTR, EIO}}

\* outcomes of write(2) on fd_write: n bytes accepted (n below the request: partial),
\* or -1 with errno
WriteOutcomes ==
    {[n |-> k, errno |-> 0] : k \in 1..ChunkSize}
      \cup {[n |-> -1, errno |-> e] : e \in {EAGAIN, EPIPE}}

NoRead == [n |-> -1, errno |-> EAGAIN]
NoWrite == [n |-> -1, errno |-> EAGAIN]

\* the environment of one channel: B.chans channel objects can be created, the
\* device sends B.din payload bytes and the application supplies B.rin bytes; the
\* driver found for the device skips B.hdr bytes and has chunk_size B.chunk
One == [chans |-> 1, din |-> LifeIn, rin |-> LifeOut, fdw |-> LifeIn, devin |-> LifeOut,
        hdr |-> 0, chunk |-> ChunkSize]
\* the same with the device sending more, the application supplying nothing
Inbound == [chans |-> 1, din |-> MaxIn, rin |-> 0, fdw |-> MaxFdw, devin |-> 0,
            hdr |-> 0, chunk |-> ChunkSize]
\* the same with the application supplying more, the device sending nothing
Outbound == [chans |-> 1, din |-> 0, rin |-> MaxOut, fdw |-> 0, devin |-> MaxDevIn,
             hdr |-> 0, chunk |-> ChunkSize]
\* the environment of one channel that relays nothing
Quiet == [chans |-> 1, din |-> 0, rin |-> 0, fdw |-> 0, devin |-> 0,
          hdr |-> 0, chunk |-> ChunkSize]
\* the environment of several channels
Many == [chans |-> MaxChan, din |-> ManyIn, rin |-> ManyOut, fdw |-> ManyIn,
         devin |-> ManyOut, hdr |-> 0, chunk |-> ChunkSize]
\* the environment of one channel of an FTDI chip: each IN transfer starts with two
\* status bytes; the application supplies nothing
Ftdi == [chans |-> 1, din |-> FtdiIn, rin |-> 0, fdw |-> FtdiFdw, devin |-> 0,
         hdr |-> 2, chunk |-> FtdiChunk, lines |-> {{"data_ready"}}]
\* the same with the chip reporting a line error or none in its second status
\* byte, and sending no payload
FtdiLine == [chans |-> 1, din |-> 0, rin |-> 0, fdw |-> 0, devin |-> 0,
             hdr |-> 2, chunk |-> FtdiChunk,
             lines |-> {{"data_ready"}, {"data_ready", "overrun_error"}}]

\* the environment of one channel relaying in both directions at once
Duplex == [chans |-> 1, din |-> DuplexIn, rin |-> DuplexOut, fdw |-> DuplexIn,
           devin |-> DuplexOut, hdr |-> 0, chunk |-> ChunkSize]

\* the application has that many bytes to give, the observation window that many left
ReadFits(B, c, rd) == rd.n > 0 => h[c].rin + rd.n <= B.rin
WriteFits(B, c, wr) == wr.n > 0 => Len(h[c].fdw) + wr.n <= B.fdw

\* descriptor pairs {fd_read, fd_write} the application uses; -1 is not open
FilePairs == {<<3, 4>>, <<3, 5>>}
BadPairs == {<<-1, 4>>, <<3, -1>>}
\* descriptors ::pipe creates for channel object c: a = {a0, a1}, b = {b0, b1}
PipeA(c) == <<10 * c, 10 * c + 1>>
PipeB(c) == <<10 * c + 2, 10 * c + 3>>

GoodInfo == [baudrate |-> 115200, databits |-> 8, parity |-> 0, stopbits |-> 0,
             flowcontrol |-> 0]
BadInfos ==
    {[GoodInfo EXCEPT !.baudrate = 0], [GoodInfo EXCEPT !.databits = 4],
     [GoodInfo EXCEPT !.databits = 10], [GoodInfo EXCEPT !.parity = 5],
     [GoodInfo EXCEPT !.stopbits = 3], [GoodInfo EXCEPT !.flowcontrol = 4]}
Infos == {GoodInfo} \cup BadInfos

\* what libusb_open can return when it fails (LIBUSB_ERROR_IO, _ACCESS, _NO_DEVICE,
\* _NO_MEM) and the errno it can leave
OpenErrors == {-1, -3, -4, -11}
OpenErrnos == {0, EACCES}
\* what the driver registry (probe, claim_interface) can throw
CreateErrors == {not_supported, interface_busy}
\* what drv->setup and child->init can throw
SetupErrors == {bad_baudrate, out_of_memory}
\* payload offsets of the drivers modelled (generic: 0)

(* -------------------------------- Init -------------------------------- *)
\* on: the channel object whose driver or flags the call used, else 0;
\* open: what libusb_open returned in the call when it failed, else 0; probed: the
\* driver registry was consulted with a handle libusb_open did not set; held: what
\* the call acquired and still holds at its return
NoCall == [op |-> "none", ret |-> 0, bad |-> FALSE, enumerated |-> FALSE,
           open |-> 0, probed |-> FALSE, held |-> {}, on |-> 0,
           attached |-> {}, closed |-> {}]

\* the context as constructed: no channel, loop() not running
InitEngine ==
    /\ chan = [c \in Chan |-> NoChannel]
    /\ h = [c \in Chan |-> NoHistory]
    /\ child_list = <<>>
    /\ delete_list = <<>>
    /\ poll_list = <<>>
    /\ pending = FALSE
    /\ pc = "idle"
    /\ it = 0
    /\ result = 0
    /\ perr = 0

Init ==
    /\ InitEngine
    /\ api = NoCall

\* a handler ran into undefined behaviour (a destroyed channel was dereferenced,
\* an iterator left its vector): nothing is known of the process from here on
Undefined ==
    /\ pc' = "undefined"
    /\ UNCHANGED <<chan, h, child_list, delete_list, poll_list, pending, it, result,
                   perr, api>>

(* ------------------------------- facade ------------------------------- *)
\* facade calls come from other threads: between two steps of the loop thread
\* while it does not hold the channel-list lock
FacadeMayRun == pc \in {"idle", "usb1"}

HasFree(B) == \E c \in 1..B.chans : chan[c].st = "none"
Free == CHOOSE c \in Chan : chan[c].st = "none" /\ \A d \in Chan : d < c => chan[d].st # "none"

Called(op, ret, bad, enumerated) ==
    [api EXCEPT !.op = op, !.ret = ret, !.bad = bad, !.enumerated = enumerated,
                !.open = 0, !.probed = FALSE, !.held = {}, !.on = 0]

\* context::backend::attach(libusb_device*, ifc, ch, pi, pipes) past create():
\* new file_channel / pipe_channel, drv->setup, child->init, push_back
attach_channel(s, c, x, pipes, drv, rd, ok) ==
    LET hdr == drv.hdr
        new == [NoChannel EXCEPT !.chunk = drv.chunk,
                                 !.rbuf = [i \in 0..1 |-> [j \in 1..drv.chunk |-> Garbage]],
                                 !.wbuf = [j \in 1..drv.chunk |-> Garbage]]
        obj == IF pipes
               THEN [new EXCEPT !.st = "alive", !.kind = "pipe", !.hdr = hdr,
                                      !.fdrd = PipeA(c)[1], !.fdrw = PipeB(c)[2],
                                      !.exrd = PipeB(c)[1], !.exrw = PipeB(c)[2]]
               ELSE [new EXCEPT !.st = "alive", !.kind = "file", !.hdr = hdr,
                                      !.fdrd = x[1], !.fdrw = x[2]]
        made == IF pipes THEN {PipeA(c)[1], PipeA(c)[2], PipeB(c)[1], PipeB(c)[2]} ELSE {}
        s1 == init([s EXCEPT !.chan[c] = obj, !.h[c].made = made], c, rd, ok)
    IN [s1 EXCEPT !.child_list = Append(@, c)]

\* the descriptor pair the caller holds for a channel
Given(ch) == IF ch.kind = "pipe" THEN <<ch.exrd, ch.exrw>> ELSE <<ch.fdrd, ch.fdrw>>

\* the line parameters and descriptors the interface asks for
GoodCall(x, pi, pipes) ==
    /\ pi.databits \in 5..9
    /\ pi.parity \in 0..4
    /\ pi.stopbits \in 0..2
    /\ pi.flowcontrol \in 0..3
    /\ pi.baudrate # 0
    /\ pipes \/ (x[1] >= 0 /\ x[2] >= 0)

\* what validate() throws in context::backend::attach / pipe, or 0
attach_validate(x, pi, pipes) ==
    IF validate_info(pi) # 0 THEN validate_info(pi)
    ELSE IF ~pipes THEN validate_channel(x) ELSE 0

\* context::backend::create when libusb_open failed with res: the error thrown, or
\* 0 when throw_error returns and create goes on with devh as libusb_open left it
create_open_failed(res, errno) == throw_error(IF errno = 0 THEN res ELSE errno)

\* what is still held when the constructor of the channel throws: the driver is
\* deleted by its transaction, the handle it was given stays open
held_unbuilt(pipes, e) ==
    IF e = fcntl_error /\ pipes THEN {"handle", "a0", "a1", "b0", "b1"} ELSE {"handle"}

\* what is still held when drv->setup or child->init throws: the channel is deleted
\* by its transaction; ~pipe_channel closes exrd, fdrw, fdrd, exrw
held_deleted(pipes) ==
    LET exrd == "b0"
        fdrw == "b1"
        fdrd == "a0"
        exrw == "b1"
    IN IF pipes THEN {"a0", "a1", "b0", "b1"} \ {exrd, fdrw, fdrd, exrw} ELSE {}

\* context::attach(id, ch, pi) / context::pipe(id, ch, pi) that end in an error:
\* validate throws, find(id) finds no device, create() throws, the constructor of
\* the channel throws, drv->setup or child->init throws
AttachFails(x, pi, pipes) ==
    /\ FacadeMayRun
    /\ LET op == IF pipes THEN "pipe" ELSE "attach"
           v == attach_validate(x, pi, pipes)
           bad == ~GoodCall(x, pi, pipes)
           rest == <<chan, h, child_list, delete_list, poll_list, pending, it, result,
                     perr>>
       IN \/ /\ v # 0
             /\ api' = Called(op, -v, bad, FALSE)
             /\ UNCHANGED <<rest, pc>>
          \/ /\ v = 0
             /\ api' = Called(op, -no_device, bad, TRUE)
             /\ UNCHANGED <<rest, pc>>
          \/ /\ v = 0
             /\ \E res \in OpenErrors, errno \in OpenErrnos :
                  LET e == create_open_failed(res, errno)
                  IN \/ /\ e # 0
                        /\ api' = [Called(op, -e, bad, TRUE) EXCEPT !.open = res]
                        /\ UNCHANGED <<rest, pc>>
                     \/ /\ e = 0   \* devh happens to be null: transaction throws
                        /\ api' = [Called(op, -out_of_memory, bad, TRUE)
                                     EXCEPT !.open = res]
                        /\ UNCHANGED <<rest, pc>>
                     \/ /\ e = 0   \* devh is not null: the drivers probe it
                        /\ api' = [Called(op, 0, bad, TRUE)
                                     EXCEPT !.open = res, !.probed = TRUE]
                        /\ pc' = "undefined"
                        /\ UNCHANGED rest
          \/ /\ v = 0
             /\ \E e \in CreateErrors : api' = Called(op, -e, bad, TRUE)
             /\ UNCHANGED <<rest, pc>>
          \/ /\ v = 0
             /\ \E e \in {fcntl_error} \cup (IF pipes THEN {pipe_error} ELSE {}) :
                  api' = [Called(op, -e, bad, TRUE) EXCEPT !.held = held_unbuilt(pipes, e)]
             /\ UNCHANGED <<rest, pc>>
          \/ /\ v = 0
             /\ \E e \in SetupErrors :
                  api' = [Called(op, -e, bad, TRUE) EXCEPT !.held = held_deleted(pipes)]
             /\ UNCHANGED <<rest, pc>>

\* context::attach(id, ch, pi) / context::pipe(id, ch, pi) that create a channel
Attach(B, x, pi, pipes) ==
    /\ FacadeMayRun
    /\ attach_validate(x, pi, pipes) = 0
    /\ HasFree(B)
    /\ \E rd \in ReadOutcomes, ok \in BOOLEAN :
         /\ ReadFits(B, Free, rd)
         /\ LET r == attach_channel(Cur, Free, x, pipes, B, rd, ok)
            IN /\ Set(r)
               /\ api' = [Called(IF pipes THEN "pipe" ELSE "attach", success,
                                 ~GoodCall(x, pi, pipes), TRUE)
                            EXCEPT !.attached = @ \cup {Given(r.chan[Free])}]
    /\ UNCHANGED <<pc, it, result, perr>>

\* context::close(ch)
Close(x) ==
    /\ FacadeMayRun
    /\ LET r == backend_close(Cur, x)
       IN IF r.ub THEN Undefined
          ELSE /\ Set(r)
               /\ api' = [Called("close", 0, FALSE, FALSE) EXCEPT !.closed = @ \cup {x}]
               /\ UNCHANGED <<pc, it, result, perr>>

\* context::status(ch), context::reset(ch), context::sendbreak(ch)
Query(op, x) ==
    /\ FacadeMayRun
    /\ LET f == backend_find(Cur, x)
           c == f.ret
           ret == IF op = "status" THEN file_channel_status(chan[c])
                  ELSE IF op = "sendbreak" THEN -sendbreak(chan[c])
                  ELSE success
       IN IF f.ub THEN Undefined
          ELSE /\ api' = IF c = 0 THEN Called(op, -no_channel, FALSE, FALSE)
                         ELSE [Called(op, ret, FALSE, FALSE) EXCEPT !.on = c]
               /\ UNCHANGED <<chan, h, child_list, delete_list, poll_list, pending, pc,
                              it, result, perr>>

(* ------------------------------- drivers ------------------------------ *)
\* ftdi::l_ifc and ftdi::h_ifcs: endpoint addresses and chunk size
l_ifc == [ep_bulk_in |-> 129, ep_bulk_out |-> 2, chunk_size |-> 64]
h_ifcs == [k \in 0..3 |-> [ep_bulk_in |-> 129 + 2 * k, ep_bulk_out |-> 2 + 2 * k,
                           chunk_size |-> 64]]

\* FTDI's vendor id 0x0403; `table` and `high_speed` of ftdi::factory::create:
\* 0x6001 0x6010 0x6011 0x6014 0x6015 and 0x6010 0x6011 0x6014
ftdi_vid == {1027}
table == <<24577, 24592, 24593, 24596, 24597>>
high_speed == <<24592, 24593, 24596>>
\* bcdDevice 0x0700, 0x0800, 0x0900
bcd_high == <<1792, 2048, 2304>>

\* the ish computed by ftdi::factory::create from the device descriptor
detect_ish(desc) ==
    IF ~\E k \in 1..Len(table) : table[k] = desc.idProduct
    THEN \E k \in 1..3 : desc.bcdDevice = bcd_high[k]
    ELSE \/ desc.idProduct = high_speed[1] /\ desc.bcdDevice = bcd_high[1]
         \/ desc.idProduct = high_speed[2]
         \/ desc.idProduct = high_speed[3]

\* the constructor ftdi::ftdi(libusb_device_handle*, uint8_t num, bool ish)
ftdi_ftdi(num, ish) ==
    [ret |-> "driver", ifc |-> IF ish THEN h_ifcs[num] ELSE l_ifc, ifcnum |-> num,
     isH |-> ish]

\* ftdi::factory::create(handle, num) on a device with descriptor desc. Its last
\* line is new ftdi(handle, ish, num): ish converts to the uint8_t num, num to the
\* bool ish
ftdi_factory_create(desc, num) ==
    IF num >= 4 THEN [ret |-> "throw", e |-> invalid_param]
    ELSE IF desc.idVendor \notin ftdi_vid THEN [ret |-> "nullptr"]
    ELSE LET ish == detect_ish(desc)
         IN IF ~ish /\ num # 0 THEN [ret |-> "throw", e |-> invalid_param]
            ELSE ftdi_ftdi(IF ish THEN 1 ELSE 0, num # 0)

\* the device descriptors tried: FTDI's vendor id and another, the product ids of
\* the table and another, five bcdDevice values
Descriptors ==
    [idVendor : {1027, 1659},
     idProduct : {24577, 24592, 24593, 24596, 24597, 24600},
     bcdDevice : {1280, 1536, 1792, 2048, 2304}]

\* a device and an interface number are handed to the FTDI factory
InitCreate ==
    /\ InitEngine
    /\ api \in [op : {"device"}, desc : Descriptors, num : 0..MaxIfc]

\* the registry calls ftdi::factory::create
FactoryCreate ==
    /\ api.op = "device"
    /\ api' = [op |-> "create", desc |-> api.desc, num |-> api.num,
               drv |-> ftdi_factory_create(api.desc, api.num)]
    /\ UNCHANGED <<chan, h, child_list, delete_list, poll_list, pending, pc, it, result,
                   perr>>

SpecCreate == InitCreate /\ [][FactoryCreate]_vars

\* a & b and a | b of two unsigned numbers
RECURSIVE BitAnd(_, _)
BitAnd(a, b) ==
    IF a = 0 \/ b = 0 THEN 0 ELSE (a % 2) * (b % 2) + 2 * BitAnd(a \div 2, b \div 2)
RECURSIVE BitOr(_, _)
BitOr(a, b) ==
    IF a = 0 THEN b
    ELSE IF b = 0 THEN a
    ELSE Max(a % 2, b % 2) + 2 * BitOr(a \div 2, b \div 2)

\* `mapper` of ftdi::compute_divisors, indexed from 0:
\* 0x0000 0xC000 0x8000 0x0100 0x4000 0x4100 0x8100 0xC100
mapper == [k \in 0..7 |-> <<0, 49152, 32768, 256, 16384, 16640, 33024, 49408>>[k + 1]]
\* (high_clk / 10) >> 14
low_limit == (high_clk \div 10) \div 16384

\* ftdi::compute_divisors without the rounding term (prescaler >> 1) - 1
compute_divisors_truncating(isH, baudrate) ==
    LET clk == IF isH THEN high_clk ELSE low_clk
        prescaler == IF isH /\ baudrate > low_limit THEN 10 ELSE 16
        divisor == ((clk * 8) \div baudrate) \div prescaler
    IN [index |-> BitOr(BitAnd(mapper[BitAnd(divisor, 7)], 256),
                        IF prescaler = 10 THEN 512 ELSE 0),
        value |-> BitOr(BitAnd(divisor \div 8, 16383),
                        BitAnd(mapper[BitAnd(divisor, 7)], 49152))]

\* ftdi::compute_divisors(baudrate, value, index) of a driver with the flag isH;
\* clk << 3 is at most 960000000 and does not wrap in 32 bits
compute_divisors(isH, baudrate) ==
    LET clk == IF isH THEN high_clk ELSE low_clk
        prescaler == IF isH /\ baudrate > low_limit THEN 10 ELSE 16
        divisor == ((clk * 8) \div baudrate + prescaler \div 2 - 1) \div prescaler
    IN [index |-> BitOr(BitAnd(mapper[BitAnd(divisor, 7)], 256),
                        IF prescaler = 10 THEN 512 ELSE 0),
        value |-> BitOr(BitAnd(divisor \div 8, 16383),
                        BitAnd(mapper[BitAnd(divisor, 7)], 49152))]

\* ftdi::setbaudrate: the request, value and index handed to write_cv
setbaudrate(isH, ifcnum, baudrate) ==
    LET d == compute_divisors(isH, baudrate)
    IN [req |-> set_baudrate_req, value |-> d.value, index |-> BitOr(d.index, ifcnum)]

\* the baud rates tried
Bauds == {1, 300, 732, 733, 9600, 57600, 115200, 921600, 3000000}

\* an FTDI driver, low- or high-speed, bound to an interface, is asked for a rate
InitBaud ==
    /\ InitEngine
    /\ api \in [op : {"ftdi"}, isH : BOOLEAN, ifcnum : 0..3, baudrate : Bauds]

\* ftdi::setbaudrate(baudrate)
SetBaudrate ==
    /\ api.op = "ftdi"
    /\ api' = [op |-> "setbaudrate", isH |-> api.isH, ifcnum |-> api.ifcnum,
               baudrate |-> api.baudrate,
               cv |-> setbaudrate(api.isH, api.ifcnum, api.baudrate)]
    /\ UNCHANGED <<chan, h, child_list, delete_list, poll_list, pending, pc, it, result,
                   perr>>

SpecBaud == InitBaud /\ [][SetBaudrate]_vars

(* ------------------------- rwlock and the locks ----------------------- *)
\* The locking of the context seen alone: the thread that calls loop() and two
\* threads that call the facade. Here api holds the locks and each thread's
\* position; what the threads do to the lists between the lock operations is
\* left out, the position says which list a thread is working on.
\*   n, m   rwlock::n and the holder of rwlock::m of child_list; n is unsigned,
\*          a count below zero stands for the value it wraps to (2^32 + n)
\*   big    the holder of the std::mutex that rwlock derives from
\*   pm     the holder of the std::mutex of poll_list
Threads == {"loop", "f1", "f2"}

engine == <<chan, h, child_list, delete_list, poll_list, pending, pc, it, result, perr>>

NoLocks == [n |-> 0, big |-> "none", m |-> "none", pm |-> "none",
            pos |-> [T \in Threads |-> IF T = "loop" THEN "idle" ELSE "out"]]

InitLock ==
    /\ InitEngine
    /\ api = NoLocks

\* std::lock_guard<mutex> _lock(m) at the head of shared_lock, shared_unlock and
\* upgrade
LockM(T) ==
    /\ api.pos[T] \in {"sl0", "su0", "up0"}
    /\ api.m = "none"
    /\ api' = [api EXCEPT !.m = T,
                          !.pos[T] = IF @ = "sl0" THEN "sl1"
                                     ELSE IF @ = "su0" THEN "su1" ELSE "up1"]
    /\ UNCHANGED engine

\* rwlock::shared_lock: if( ++n == 1 ) lock(); the first reader waits for the
\* mutex with m held
SharedLock(T) ==
    /\ api.pos[T] = "sl1"
    /\ api.n = 0 => api.big = "none"
    /\ api' = [api EXCEPT !.n = @ + 1,
                          !.big = IF api.n = 0 THEN T ELSE @,
                          !.m = "none",
                          !.pos[T] = IF T = "loop" THEN "dispatch" ELSE "in"]
    /\ UNCHANGED engine

\* std::mutex::unlock by thread T: unlocking a mutex another thread locked is
\* undefined; it is released, or the call fails and it stays locked
mutex_unlock(big, T) == IF big = T \/ big = "none" THEN {"none"} ELSE {"none", big}

\* rwlock::shared_unlock: if( --n == 0 ) unlock()
SharedUnlock(T) ==
    /\ api.pos[T] = "su1"
    /\ api.n > -MaxSkew
    /\ \E b \in IF api.n = 1 THEN mutex_unlock(api.big, T) ELSE {api.big} :
         api' = [api EXCEPT !.n = @ - 1,
                            !.big = b,
                            !.m = "none",
                            !.pos[T] = IF T = "loop" THEN "idle" ELSE "out"]
    /\ UNCHANGED engine

\* rwlock::upgrade: if( --n ) lock(); with readers left it waits for the mutex
\* with m held. Locking a mutex the thread itself locked is undefined: the
\* thread hangs, or lock() throws std::system_error, which leaves upgrade and
\* loop's lambda through ~shared_guard (excl still false: shared_unlock)
upgrade(T) ==
    \/ /\ api.pos[T] = "up1"
       /\ api.n > -MaxSkew
       /\ api' = [api EXCEPT !.n = @ - 1,
                             !.m = IF api.n = 1 THEN "none" ELSE @,
                             !.pos[T] = IF api.n = 1 THEN "sweep" ELSE "up2"]
       /\ UNCHANGED engine
    \/ /\ api.pos[T] = "up2"
       /\ api.big = "none"
       /\ api' = [api EXCEPT !.big = T, !.m = "none", !.pos[T] = "sweep"]
       /\ UNCHANGED engine
    \/ /\ api.pos[T] = "up2"
       /\ api.big = T
       /\ \/ api' = [api EXCEPT !.pos[T] = "hung"]
          \/ api' = [api EXCEPT !.m = "none", !.pos[T] = "su0"]
       /\ UNCHANGED engine

\* lock_guard<vector_lock> lock(child_list) in context::close, and
\* lock_guard<vector_lock> lock(poll_list) in context::loop
Lock(T) ==
    /\ \/ /\ api.pos[T] = "lk"
          /\ api.big = "none"
          /\ api' = [api EXCEPT !.big = T, !.pos[T] = "closing"]
       \/ /\ api.pos[T] = "idle"
          /\ api.pm = "none"
          /\ api' = [api EXCEPT !.pm = T, !.pos[T] = "polling"]
    /\ UNCHANGED engine

\* the destructors of the guards: ~lock_guard, and ~shared_guard with excl set
Unlock(T) ==
    /\ \/ /\ api.pos[T] = "ul"
          /\ \E b \in mutex_unlock(api.big, T) :
               api' = [api EXCEPT !.big = b,
                                  !.pos[T] = IF T = "loop" THEN "idle" ELSE "out"]
       \/ /\ api.pos[T] = "polling"
          /\ api' = [api EXCEPT !.pm = "none", !.pos[T] = "sl0"]
    /\ UNCHANGED engine

\* a facade thread: it calls status, reset or sendbreak (shared_guard), close
\* (lock_guard) or attach / pipe (no lock); then find and the call on the channel
\* end, close has moved the channel, attach has run init() and pushed the channel
FacadeStep(T) ==
    /\ T # "loop"
    /\ \/ /\ api.pos[T] = "out"
          /\ \E p \in {"sl0", "lk", "attach"} : api' = [api EXCEPT !.pos[T] = p]
       \/ /\ api.pos[T] = "in"
          /\ api' = [api EXCEPT !.pos[T] = "su0"]
       \/ /\ api.pos[T] = "closing"
          /\ api' = [api EXCEPT !.pos[T] = "ul"]
       \/ /\ api.pos[T] = "attach"
          /\ api' = [api EXCEPT !.pos[T] = "out"]
    /\ UNCHANGED engine

\* the loop thread between its lock operations: after handle_pending_events it
\* leaves, or finds delete_list not empty, runs handle_libusb_events and
\* upgrades; after cleanup it returns
LoopStep(T) ==
    /\ T = "loop"
    /\ \/ /\ api.pos[T] = "dispatch"
          /\ \E p \in {"su0", "up0"} : api' = [api EXCEPT !.pos[T] = p]
       \/ /\ api.pos[T] = "sweep"
          /\ api' = [api EXCEPT !.pos[T] = "ul"]
    /\ UNCHANGED engine

ThreadStep(T) ==
    \/ LockM(T)
    \/ SharedLock(T)
    \/ SharedUnlock(T)
    \/ upgrade(T)
    \/ Lock(T)
    \/ Unlock(T)
    \/ FacadeStep(T)
    \/ LoopStep(T)

NextLock == \E T \in Threads : ThreadStep(T)

SpecLock == InitLock /\ [][NextLock]_vars

\* the same under fair scheduling: a thread that can take a step again and again
\* takes it
FairSpecLock == InitLock /\ [][NextLock]_vars /\ \A T \in Threads : SF_vars(ThreadStep(T))

(* ---------------------------- context::loop --------------------------- *)
\* the return statement of context::loop
ReturnFrom(s, res) ==
    /\ Set(s)
    /\ pc' = "ret"
    /\ it' = 0
    /\ result' = IF res = 0 /\ Len(s.child_list) = 0 THEN -no_channels ELSE res
    /\ UNCHANGED api

Return(s, res) == ReturnFrom(s, res) /\ UNCHANGED perr

\* if( delete_list.size() ) { handle_libusb_events; upgrade; cleanup }
SweepFrom(s, res) ==
    IF Len(s.delete_list) > 0
    THEN /\ Set(s)
         /\ pc' = "usb2"
         /\ it' = 0
         /\ result' = res
         /\ UNCHANGED api
    ELSE ReturnFrom(s, res)

Sweep(s, res) == SweepFrom(s, res) /\ UNCHANGED perr

\* if( pending ) handle_pending_events()
DispatchFrom(s, res) ==
    IF s.pending
    THEN /\ Set(s)
         /\ pc' = "pend"
         /\ it' = 0
         /\ result' = res
         /\ UNCHANGED api
    ELSE SweepFrom(s, res)

Dispatch(s, res) == DispatchFrom(s, res) /\ UNCHANGED perr

\* safe(): an error thrown inside loop becomes its return value
Thrown(e) ==
    /\ pc' = "ret"
    /\ it' = 0
    /\ result' = -e
    /\ UNCHANGED <<chan, h, child_list, delete_list, poll_list, pending, api>>

RvSets == {rv \in [1..Len(poll_list) -> SUBSET {"IN", "OUT", "HUP"}] :
             \A k \in 1..Len(poll_list) : rv[k] \subseteq poll_list[k].events}

\* context::loop up to the first libusb_handle_events_timeout: handle_events,
\* poll_events
LoopPoll ==
    /\ pc = "idle"
    /\ \/ /\ Len(poll_list) = 0
          /\ pc' = "usb1"
          /\ UNCHANGED <<chan, h, child_list, delete_list, poll_list, pending, it,
                         result, perr, api>>
       \/ /\ Len(poll_list) > 0
          /\ \E rv \in RvSets :
               LET r == poll_events(Cur, rv)
               IN IF r.ub THEN Undefined
                  ELSE /\ Set(r)
                       /\ pc' = "usb1"
                       /\ UNCHANGED <<it, result, perr, api>>
       \/ /\ Len(poll_list) > 0
          /\ \E errno \in {EINTR, EINVAL} :
               LET e == poll_events_failed(-1, errno)
               IN /\ perr' = errno
                  /\ IF e # 0 THEN Thrown(e) ELSE DispatchFrom(Cur, -1)

\* the completion callback of a transfer that ended with the given status, not
\* COMPLETED
UsbEnds(c, t, status) ==
    /\ pc \in {"usb1", "usb2", "pass"}
    /\ chan[c].usb[t] # "idle"
    /\ (status = CANCELLED) <=> (chan[c].usb[t] = "cancelling")
    /\ IF chan[c].st # "alive" THEN Undefined
       ELSE
         /\ UNCHANGED <<pc, it, result, perr, api>>
         /\ LET fail ==
                    [Cur EXCEPT !.chan[c].usb[t] = "idle",
                                !.h[c].fatal = @ \/ status \in {NO_DEVICE, ERROR, STALL, OVERFLOW}]
            IN Set(IF t = WR
                   THEN write_cb([fail EXCEPT !.chan[c].walen = 0], c, status, NoRead, TRUE)
                   ELSE read_cb([fail EXCEPT !.chan[c].ralen[t] = 0], c, t, status,
                                NoWrite, TRUE))

\* a completion callback of a transfer that did not succeed
UsbFails(c, t) ==
    \E status \in {CANCELLED, TIMED_OUT, NO_DEVICE, ERROR, STALL, OVERFLOW} :
      UsbEnds(c, t, status)

\* the completion callback of an IN transfer that succeeded: n raw bytes arrived,
\* the driver's status bytes first, then payload
UsbIn(B, c, t) ==
    /\ pc \in {"usb1", "usb2", "pass"}
    /\ chan[c].usb[t] = "submitted"
    /\ chan[c].st = "alive"
    /\ \E n \in 0..chan[c].chunk, wr \in WriteOutcomes, ok \in BOOLEAN :
       \E line \in IF chan[c].hdr = 2 /\ n >= 2 THEN B.lines ELSE {chan[c].rline[t]} :
         LET p == Max(0, n - chan[c].hdr)
             buf == [j \in 1..chan[c].chunk |->
                       IF j > n THEN chan[c].rbuf[t][j]
                       ELSE IF j <= chan[c].hdr THEN StatusByte
                       ELSE h[c].din + j - chan[c].hdr]
         IN /\ h[c].din + p <= B.din
            /\ WriteFits(B, c, wr)
            /\ Set(read_cb([Cur EXCEPT !.chan[c].usb[t] = "idle",
                                       !.chan[c].rbuf[t] = buf,
                                       !.chan[c].rline[t] = line,
                                       !.chan[c].ralen[t] = n,
                                       !.h[c].din = @ + p],
                           c, t, COMPLETED, wr, ok))
    /\ UNCHANGED <<pc, it, result, perr, api>>

\* the completion callback of the OUT transfer that succeeded: the device accepted
\* the first n bytes of the buffer
UsbOut(B, c) ==
    /\ pc \in {"usb1", "usb2", "pass"}
    /\ chan[c].usb[WR] = "submitted"
    /\ chan[c].st = "alive"
    /\ \E n \in 0..chan[c].wlen, rd \in ReadOutcomes, ok \in BOOLEAN :
         /\ Len(h[c].devin) + n <= B.devin
         /\ ReadFits(B, c, rd)
         /\ Set(write_cb([Cur EXCEPT !.chan[c].usb[WR] = "idle",
                                     !.chan[c].walen = n,
                                     !.h[c].devin = @ \o [j \in 1..n |-> chan[c].wbuf[j]]],
                         c, COMPLETED, rd, ok))
    /\ UNCHANGED <<pc, it, result, perr, api>>

\* libusb_handle_events_timeout returned (the first one, in handle_events)
LoopUsbDone ==
    /\ pc = "usb1"
    /\ Dispatch(Cur, result)

\* one iteration of handle_pending_events: events() of the child at i; i++
LoopEvents(B) ==
    /\ pc = "pend"
    /\ it < Len(child_list)
    /\ LET c == child_list[it + 1]
       IN IF chan[c].st # "alive" THEN Undefined
          ELSE \E rd \in ReadOutcomes, wr \in WriteOutcomes, ok \in BOOLEAN :
                 /\ ReadFits(B, c, rd)
                 /\ WriteFits(B, c, wr)
                 /\ Set(events(Cur, c, rd, wr, ok))
                 /\ it' = it + 1
                 /\ UNCHANGED <<pc, result, perr, api>>

\* handle_pending_events leaves its loop when i == child_list.end(); an iterator
\* that an erase inside events() left beyond end() never compares equal
LoopEventsEnd ==
    /\ pc = "pend"
    /\ it >= Len(child_list)
    /\ IF it > Len(child_list) THEN Undefined
       ELSE Sweep([Cur EXCEPT !.pending = FALSE], result)

\* the second libusb_handle_events_timeout returned; cleanup; return
LoopCleanup ==
    /\ pc = "usb2"
    /\ LET r == cleanup(Cur)
       IN IF r.ub THEN Undefined ELSE Return(r, result)

\* the while loop of context::backend::~backend. request_removal erases the back
\* of child_list, pop_back then drops one more element, and child->close() reads
\* the reference `child` to the slot that was erased; stale: the slot still holds
\* the pointer
RECURSIVE quarantine_all(_, _)
quarantine_all(s, stale) ==
    IF Len(s.child_list) = 0 THEN s
    ELSE LET child == s.child_list[Len(s.child_list)]
             s1 == backend_request_removal(s, child)
         IN IF Len(s1.child_list) = 0 \/ ~stale \/ s.chan[child].st # "alive"
            THEN [s EXCEPT !.ub = TRUE]
            ELSE LET s2 == [s1 EXCEPT !.child_list = SubSeq(@, 1, Len(@) - 1)]
                 IN quarantine_all(file_channel_close(s2, child), stale)

\* whether ~backend runs one more pass of its for loop
more_passes(s, i) == i # 0 /\ Len(s.delete_list) # 0

\* context::backend::~backend up to the first handle_libusb_events, or up to
\* libusb_exit when it makes no pass
Destroy ==
    /\ pc = "idle"
    /\ \E stale \in BOOLEAN :
         LET r == cleanup(quarantine_all(Cur, stale))
         IN IF r.ub THEN Undefined
            ELSE /\ Set(r)
                 /\ it' = N
                 /\ pc' = IF more_passes(r, N) THEN "pass" ELSE "exit"
                 /\ UNCHANGED <<result, perr, api>>

\* handle_libusb_events of a pass of ~backend has returned: cleanup, --i, and
\* libusb_exit after the last pass
DestroyPass ==
    /\ pc = "pass"
    /\ LET r == cleanup(Cur)
       IN IF r.ub THEN Undefined
          ELSE /\ Set(r)
               /\ it' = it - 1
               /\ pc' = IF more_passes(r, it - 1) THEN "pass" ELSE "exit"
               /\ UNCHANGED <<result, perr, api>>

\* context::loop has returned result to its caller
LoopReturn ==
    /\ pc = "ret"
    /\ pc' = "idle"
    /\ result' = 0
    /\ perr' = 0
    /\ UNCHANGED <<chan, h, child_list, delete_list, poll_list, pending, it, api>>

\* context::loop
Loop(B) ==
    \/ LoopPoll
    \/ LoopUsbDone
    \/ LoopEvents(B)
    \/ LoopEventsEnd
    \/ LoopCleanup
    \/ LoopReturn

\* one channel on caller-supplied descriptors, relaying data, closed at any time
Next ==
    \/ Attach(One, <<3, 4>>, GoodInfo, FALSE)
    \/ Close(<<3, 4>>)
    \/ Loop(One)
    \/ \E c \in Chan, t \in 0..2 : UsbFails(c, t)
    \/ \E c \in Chan, t \in 0..1 : UsbIn(One, c, t)
    \/ \E c \in Chan : UsbOut(One, c)

Spec == Init /\ [][Next]_vars

\* the same where loop() is called again and again, poll(2) does not fail for ever,
\* and the USB backend ends every transfer in flight, in the end without success
\* (at the latest by its timeout)
Fairness ==
    /\ WF_vars(Loop(One))
    /\ SF_vars(LoopPoll /\ pc' = "usb1")
    /\ \A c \in Chan, t \in 0..2 : SF_vars(UsbFails(c, t))

FairSpec == Init /\ [][Next]_vars /\ Fairness

\* one channel, inbound direction: the application never has a byte to send
NextIn ==
    \/ Attach(Inbound, <<3, 4>>, GoodInfo, FALSE)
    \/ Loop(Inbound)
    \/ \E c \in Chan, t \in 0..2 : UsbFails(c, t)
    \/ \E c \in Chan, t \in 0..1 : UsbIn(Inbound, c, t)

SpecIn == Init /\ [][NextIn]_vars

\* one channel, outbound direction: the device never sends a payload byte
NextOut ==
    \/ Attach(Outbound, <<3, 4>>, GoodInfo, FALSE)
    \/ Loop(Outbound)
    \/ \E c \in Chan, t \in 0..2 : UsbFails(c, t)
    \/ \E c \in Chan, t \in 0..1 : UsbIn(Outbound, c, t)
    \/ \E c \in Chan : UsbOut(Outbound, c)

SpecOut == Init /\ [][NextOut]_vars

\* several channels on caller-supplied descriptors, attached and closed, while the
\* device is silent and no transfer fails
NextMany ==
    \/ \E x \in FilePairs : Attach(Many, x, GoodInfo, FALSE)
    \/ \E x \in FilePairs : Close(x)
    \/ Loop(Many)
    \/ \E c \in Chan, t \in 0..1 : UsbIn(Many, c, t)

SpecMany == Init /\ [][NextMany]_vars

\* one channel, file or pipe; attach and pipe are called with any parameters
NextApi ==
    \/ \E x \in FilePairs \cup BadPairs, pi \in Infos : AttachFails(x, pi, FALSE)
    \/ \E pi \in Infos : AttachFails(<<0, 0>>, pi, TRUE)
    \/ Attach(Quiet, <<3, 4>>, GoodInfo, FALSE)
    \/ Attach(Quiet, <<0, 0>>, GoodInfo, TRUE)
    \/ \E x \in {<<3, 4>>, PipeB(1)} : Close(x)
    \/ Loop(Quiet)
    \/ \E c \in Chan, t \in 0..2 : UsbFails(c, t)

SpecApi == Init /\ [][NextApi]_vars

\* one channel on caller-supplied descriptors, relaying data, closed at any time,
\* while its status is asked for
NextStatus ==
    \/ Attach(One, <<3, 4>>, GoodInfo, FALSE)
    \/ Close(<<3, 4>>)
    \/ Query("status", <<3, 4>>)
    \/ Loop(One)
    \/ \E c \in Chan, t \in 0..2 : UsbFails(c, t)
    \/ \E c \in Chan, t \in 0..1 : UsbIn(One, c, t)
    \/ \E c \in Chan : UsbOut(One, c)

SpecStatus == Init /\ [][NextStatus]_vars

\* one channel of an FTDI chip on caller-supplied descriptors, receiving, with
\* idle periods in which its IN transfers time out
NextFtdi ==
    \/ Attach(Ftdi, <<3, 4>>, GoodInfo, FALSE)
    \/ Loop(Ftdi)
    \/ \E c \in Chan, t \in 0..1 : UsbEnds(c, t, TIMED_OUT)
    \/ \E c \in Chan, t \in 0..1 : UsbIn(Ftdi, c, t)

SpecFtdi == Init /\ [][NextFtdi]_vars

\* one channel of an FTDI chip that reports line errors, while its status is asked
\* for
NextLine ==
    \/ Attach(FtdiLine, <<3, 4>>, GoodInfo, FALSE)
    \/ Query("status", <<3, 4>>)
    \/ Loop(FtdiLine)
    \/ \E c \in Chan, t \in 0..1 : UsbIn(FtdiLine, c, t)

SpecLine == Init /\ [][NextLine]_vars

\* channels on caller-supplied descriptors, attached and closed by a program that
\* destroys the context without having called loop()
NextTeardown ==
    \/ \E x \in FilePairs : Attach(Many, x, GoodInfo, FALSE)
    \/ \E x \in FilePairs : Close(x)
    \/ \E c \in Chan, t \in 0..2 : UsbFails(c, t)
    \/ Destroy
    \/ DestroyPass

SpecTeardown == Init /\ [][NextTeardown]_vars

\* one channel that relays nothing, closed at any time, while status, reset and
\* sendbreak are called for its descriptor pair and for a pair never attached
NextControl ==
    \/ Attach(Quiet, <<3, 4>>, GoodInfo, FALSE)
    \/ Close(<<3, 4>>)
    \/ \E op \in {"status", "reset", "sendbreak"}, x \in FilePairs : Query(op, x)
    \/ Loop(Quiet)
    \/ \E c \in Chan, t \in 0..2 : UsbFails(c, t)

SpecControl == Init /\ [][NextControl]_vars

\* one channel relaying both ways: its OUT transfer is in flight while fd_write is
\* polled for a partial write
NextDuplex ==
    \/ Attach(Duplex, <<3, 4>>, GoodInfo, FALSE)
    \/ Loop(Duplex)
    \/ \E c \in Chan, t \in 0..1 : UsbIn(Duplex, c, t)
    \/ \E c \in Chan : UsbOut(Duplex, c)

SpecDuplex == Init /\ [][NextDuplex]_vars

(* ------------------------------- claims ------------------------------- *)
\* The device's payload bytes of a channel are numbered 1, 2, ... in arrival order
\* (UsbIn), and so are the bytes the application supplies on fd_read (readpipe).

\* C1: inbound order. The bytes written to fd_write are at every moment a prefix of
\* the payload bytes of the completed IN transfers in completion order: nothing is
\* dropped, duplicated or written ahead of a byte that arrived earlier.
C1_InboundOrder ==
    \A c \in Chan :
      /\ Len(h[c].fdw) <= h[c].din
      /\ \A k \in 1..Len(h[c].fdw) : h[c].fdw[k] = k

\* C2: outbound fidelity. The bytes the device accepted over the successive OUT
\* submissions are, in order and without loss or duplication, the bytes read from
\* fd_read.
C2_OutboundFidelity ==
    \A c \in Chan :
      /\ Len(h[c].devin) <= h[c].rin
      /\ \A k \in 1..Len(h[c].devin) : h[c].devin[k] = k

\* C3: after context.close(ch) on a live channel, with loop() called again and again
\* and every transfer in flight eventually completing, the channel is eventually
\* destroyed.
C3_CloseDestroys ==
    \A c \in Chan : h[c].closed ~> (chan[c].st = "freed" \/ pc = "undefined")

\* C4: context.close(ch) issues a cancel request for every transfer in flight, so a
\* closed channel is not destroyed before each transfer that was in flight at the
\* close was asked to cancel.
C4_CloseCancels ==
    \A c \in Chan :
      (h[c].closed /\ chan[c].st = "freed") => h[c].atclose \subseteq h[c].cancelreq

\* C5: once context.close(ch) has returned, no read(2) on fd_read, write(2) on
\* fd_write or transfer submission is made for the channel.
C5_QuietAfterClose == \A c \in Chan : ~h[c].late_io

\* C6: a second or later context.close(ch) of a descriptor pair, and a close of a
\* pair that was never attached, leaves the child-list, the delete-list, the
\* poll-list and every channel unchanged.
C6_IdempotentClose ==
    [][\A x \in FilePairs :
         (Close(x) /\ (x \in api.closed \/ x \notin api.attached))
           => UNCHANGED <<child_list, delete_list, poll_list, chan>>]_vars

\* C7: loop() does not return -no_channels while a live channel remains (one in
\* the child-list that was not asked to be removed), also when poll(2) was
\* interrupted.
C7_NoChannelsMeansEmpty ==
    (pc = "ret" /\ result = -no_channels)
      => ~\E c \in Chan : /\ chan[c].st = "alive"
                          /\ Has(child_list, c)
                          /\ ~Has(delete_list, c)

\* C8: after a transfer of the channel completed with NO_DEVICE, ERROR, STALL or
\* OVERFLOW, with loop() called again and again, the channel is eventually
\* destroyed and some loop() call returns -no_channels.
C8_FatalEndsLoop ==
    \A c \in Chan :
      h[c].fatal ~> \/ pc = "undefined"
                    \/ chan[c].st = "freed" /\ pc = "ret" /\ result = -no_channels

\* C9: a loop() call whose poll(2) failed with EINVAL returns -poll_error.
C9_PollEinval == (pc = "ret" /\ perr = EINVAL) => result = -poll_error

\* C10: attach and pipe called with invalid line parameters, and attach with a
\* descriptor that is not open, return -invalid_param before any device is
\* enumerated and leave the child-list, the delete-list and the poll-list unchanged.
C10_InvalidParam ==
    [][(api' # api /\ api'.op \in {"attach", "pipe"} /\ api'.bad)
         => /\ api'.ret = -invalid_param
            /\ ~api'.enumerated
            /\ UNCHANGED <<child_list, delete_list, poll_list>>]_vars

\* an attach with invalid parameters has returned while a channel is live
C10_Witness ==
    /\ api.op = "attach"
    /\ api.bad
    /\ api.ret = -invalid_param
    /\ Len(child_list) > 0

\* C11: whenever attach or pipe returns a negative code, everything the call had
\* acquired has been released (USB handle, interface, pipe ends), and the call
\* leaves no channel in the child-list, the delete-list or the poll-list.
C11_FailedAttachReleases ==
    [][(/\ api' # api
        /\ api'.op \in {"attach", "pipe"}
        /\ -api'.ret \in {no_device, not_supported, interface_busy, pipe_error,
                          bad_baudrate, out_of_memory})
         => /\ api'.held = {}
            /\ UNCHANGED <<child_list, delete_list, poll_list>>]_vars

\* C12: when libusb_open fails, whatever code it returns, attach returns a negative
\* code, the driver registry is not consulted with the handle, and no channel is
\* created.
C12_OpenFailure ==
    [][(api' # api /\ api'.open # 0)
         => /\ api'.ret < 0
            /\ ~api'.probed
            /\ UNCHANGED <<chan, child_list, delete_list>>]_vars

\* bit b, a power of two, of the number n
Bit(n, b) == (n \div b) % 2 = 1

\* C13: status(ch) for a channel in the child-list and not in the delete-list has
\* read_pipe_ok set iff pipein_hangup is false, write_pipe_ok set iff
\* pipeout_hangup is false and usb_dev_ok set iff device_hangup is false, so a
\* channel with no flag raised reports 7.
C13_StatusBits ==
    [][(/\ api' # api
        /\ api'.op = "status"
        /\ api'.on # 0
        /\ Has(child_list, api'.on)
        /\ ~Has(delete_list, api'.on))
         => LET ch == chan[api'.on]
            IN /\ Bit(api'.ret, 1) <=> ~ch.pipein_hangup
               /\ Bit(api'.ret, 2) <=> ~ch.pipeout_hangup
               /\ Bit(api'.ret, 4) <=> ~ch.device_hangup
               /\ api'.ret \in 0..7
               /\ (~ch.pipein_hangup /\ ~ch.pipeout_hangup /\ ~ch.device_hangup)
                    => api'.ret = 7]_vars

\* status was asked of a channel in the child-list only, whose write side had hung
\* up and whose read side had not
C13_Witness ==
    /\ api.op = "status"
    /\ api.on # 0
    /\ api.ret = read_pipe_ok + usb_dev_ok
    /\ Has(child_list, api.on)
    /\ ~Has(delete_list, api.on)
    /\ chan[api.on].pipeout_hangup
    /\ ~chan[api.on].pipein_hangup

\* C15: status, reset and sendbreak, called with a descriptor pair that no channel
\* was attached with or whose channel close() has returned for, also while that
\* channel is still in the delete-list, return -no_channel and use no channel's
\* driver.
C15_NoChannel ==
    [][\A op \in {"status", "reset", "sendbreak"}, x \in FilePairs :
         (/\ Query(op, x)
          /\ ~\E c \in Chan : /\ chan[c].st = "alive"
                               /\ ~h[c].closed
                               /\ Given(chan[c]) = x)
           => (api'.ret = -no_channel /\ api'.on = 0)]_vars

\* C16: after a successful pipe(), the caller's fd_write is the write end of pipe a,
\* whose read end is the engine's fd_read; the caller's fd_read is the read end of
\* pipe b, whose write end is the engine's fd_write; the caller's fd_write is not
\* a descriptor the engine writes to.
C16_CallerEnds ==
    \A c \in Chan :
      (chan[c].st = "alive" /\ chan[c].kind = "pipe")
        => /\ chan[c].exrw = PipeA(c)[2]
           /\ chan[c].fdrd = PipeA(c)[1]
           /\ chan[c].exrd = PipeB(c)[1]
           /\ chan[c].fdrw = PipeB(c)[2]
           /\ chan[c].exrw # chan[c].fdrw

\* how many times x occurs in seq
Count(seq, x) == Cardinality({k \in 1..Len(seq) : seq[k] = x})

\* C17: the destructor of a pipe channel closes each of the four pipe ends created
\* for it exactly once, and the destructor of a file channel closes no
\* descriptor.
C17_ClosedOnce ==
    \A c \in Chan :
      chan[c].st = "freed"
        => /\ \A d \in h[c].made : Count(h[c].closes, d) = 1
           /\ \A k \in 1..Len(h[c].closes) : h[c].closes[k] \in h[c].made

\* C19: when an IN or OUT transfer of a channel with no hang-up flag, not in the
\* delete-list, completes with TIMED_OUT, the channel is not put in the
\* delete-list and the transfer is submitted again.
C19_TimeoutResubmits ==
    [][\A c \in Chan, t \in 0..2 :
         (/\ UsbEnds(c, t, TIMED_OUT)
          /\ chan[c].st = "alive"
          /\ ~chan[c].pipein_hangup /\ ~chan[c].pipeout_hangup /\ ~chan[c].device_hangup
          /\ ~Has(delete_list, c))
           => (~Has(delete_list', c) /\ chan'[c].usb[t] = "submitted")]_vars

\* C18: destroying the context puts every channel of the child-list in the
\* delete-list, or frees it at once, after asking for the cancellation of each of
\* its transfers in flight, and goes on to at most five passes.
C18_Teardown ==
    [][Destroy
         => /\ pc' \in {"pass", "exit"}
            /\ it' <= N
            /\ \A c \in Chan :
                 Has(child_list, c)
                   => /\ Has(delete_list', c) \/ chan'[c].st = "freed"
                      /\ \A t \in 0..2 : chan'[c].usb[t] # "submitted"]_vars

\* C20: no write(2) on fd_write of an FTDI channel starts within the first two
\* bytes of an IN transfer, and none takes bytes of an IN transfer shorter than 2
\* bytes, whether writepipe runs from the completion callback or from events().
C20_StatusStripped == \A c \in Chan : ~h[c].whdr /\ ~h[c].wshort

\* C14: once an IN completion of an FTDI channel carried an overrun, parity,
\* framing or break bit, status(ch) reports something beyond the three ok bits,
\* also after later completions without such a bit.
C14_LineErrorsReported ==
    [][(/\ api' # api
        /\ api'.op = "status"
        /\ api'.on # 0
        /\ chan[api'.on].errors # {})
         => api'.ret \notin 0..7]_vars

C22_FtdiBound ==
    (api.op = "create" /\ api.drv.ret = "driver")
      => /\ api.drv.ifcnum = api.num
         /\ api.drv.isH = detect_ish(api.desc)
         /\ api.drv.ifc = IF detect_ish(api.desc) THEN h_ifcs[api.num] ELSE l_ifc

\* what the claim gives for value and index once the divisor is known
DivisorWords(divisor, prescaler, ifcnum) ==
    LET e == mapper[divisor % 8]
    IN [value |-> ((divisor \div 8) % 16384) + (e \div 16384) * 16384,
        index |-> ((e \div 256) % 2) * 256 + (IF prescaler = 10 THEN 512 ELSE 0) + ifcnum]

\* the prescaler: 10 exactly for a high-speed part and a rate above 732
Prescaler(isH, baudrate) == IF isH /\ baudrate > 732 THEN 10 ELSE 16

\* C23, as amended: setbaudrate takes prescaler 10 exactly for a high-speed part
\* and a rate above 732, else 16, and with the divisor rounded,
\* divisor = (clk*8/baud + prescaler/2 - 1) / prescaler, sends the value and index
\* words the claim gives.
C23_Divisors ==
    api.op = "setbaudrate"
      => LET prescaler == Prescaler(api.isH, api.baudrate)
             clk == IF api.isH THEN 120000000 ELSE 48000000
             divisor == ((clk * 8) \div api.baudrate + prescaler \div 2 - 1) \div prescaler
             w == DivisorWords(divisor, prescaler, api.ifcnum)
         IN api.cv.value = w.value /\ api.cv.index = w.index

\* C23, as claimed: the same with divisor = (clk*8/baud) / prescaler.
C23_Truncated ==
    api.op = "setbaudrate"
      => LET prescaler == Prescaler(api.isH, api.baudrate)
             clk == IF api.isH THEN 120000000 ELSE 48000000
             divisor == ((clk * 8) \div api.baudrate) \div prescaler
             w == DivisorWords(divisor, prescaler, api.ifcnum)
         IN api.cv.value = w.value /\ api.cv.index = w.index

\* a high-speed part was asked for the first rate above the limit and took
\* prescaler 10; baud = 1 took 16
C23_Witness ==
    /\ api.op = "setbaudrate"
    /\ api.isH
    /\ api.baudrate = 733
    /\ BitAnd(api.cv.index, 512) = 512

\* C24: the sweep destroys a channel only when it finds its three busy flags
\* false, and none of the three transfers is then in flight in the USB backend.
C24_SweepWaits ==
    [][\A c \in Chan :
         (chan[c].st = "alive" /\ chan'[c].st = "freed")
           => /\ ~chan[c].writexfer_busy
              /\ ~chan[c].readxfer_busy[0]
              /\ ~chan[c].readxfer_busy[1]
              /\ \A t \in 0..2 : chan[c].usb[t] = "idle"]_vars

\* a channel closed with transfers in flight has been destroyed
C24_Witness ==
    \E c \in Chan : chan[c].st = "freed" /\ h[c].closed /\ h[c].atclose # {}

\* C25: at every event-loop boundary the busy flag of each transfer of each
\* channel is true iff the transfer is submitted to the USB backend and its
\* completion callback has not run.
C25_BusyExact ==
    pc \in {"idle", "ret"}
      => \A c \in Chan : chan[c].st = "alive"
           => \A t \in 0..2 : Busy(chan[c], t) <=> chan[c].usb[t] # "idle"

\* C26: in every reachable state each channel appears at most once in the
\* child-list and at most once in the delete-list.
C26_NoDuplicates ==
    \A c \in Chan : Count(child_list, c) <= 1 /\ Count(delete_list, c) <= 1

\* a channel closed by the caller whose removal was requested again by the
\* completion callback of one of its transfers, still in the delete-list
C26_Witness ==
    \E c \in Chan :
      /\ Has(delete_list, c)
      /\ h[c].closed
      /\ chan[c].device_hangup

\* C27: no channel is in the child-list and the delete-list at the same time,
\* and no destroyed channel is referenced from the child-list; also when a
\* transfer submission fails during init() inside attach.
C27_ListsDisjoint ==
    \A c \in Chan :
      /\ ~(Has(child_list, c) /\ Has(delete_list, c))
      /\ Has(child_list, c) => chan[c].st = "alive"

\* C28: in every reachable state the poll-list holds at most one entry per
\* descriptor, and a poll request for a descriptor that is already present
\* leaves the poll-list unchanged.
C28_PollOnce ==
    /\ \A j, k \in 1..Len(poll_list) : poll_list[j].fd = poll_list[k].fd => j = k
    /\ \A j \in 1..Len(poll_list), reading \in BOOLEAN :
         poll_request(Cur, poll_list[j].fd, reading).poll_list = poll_list

\* two channels reading the same descriptor, each of which found it empty in
\* init() and asked for it to be polled; no poll has reported it since
C28_Witness ==
    \E c, d \in Chan :
      /\ c # d
      /\ chan[c].st = "alive" /\ chan[d].st = "alive"
      /\ chan[c].fdrd = chan[d].fdrd
      /\ \A e \in {c, d} :
           /\ ~chan[e].pipein_hangup /\ ~chan[e].pipein_ready
           /\ ~chan[e].device_hangup /\ ~chan[e].writexfer_busy
      /\ HasPoll(poll_list, chan[c].fdrd)

\* C29: at every event-loop boundary and at every events() dispatch, for every
\* channel and each IN transfer i, 0 <= readpos[i] <= actual_length[i] <= chunk
\* size, so the length actual_length - readpos is never negative.
C29_ReadposInBounds ==
    pc \in {"idle", "ret", "pend"}
      => \A c \in Chan : chan[c].st = "alive"
           => \A i \in 0..1 :
                /\ 0 <= chan[c].readpos[i]
                /\ chan[c].readpos[i] <= chan[c].ralen[i]
                /\ chan[c].ralen[i] <= chan[c].chunk

\* C30: in every reachable state a channel that is not destroyed and whose
\* device_hangup flag is set is in the delete-list.
C30_HangupQuarantined ==
    \A c \in Chan :
      (chan[c].st = "alive" /\ chan[c].device_hangup) => Has(delete_list, c)

\* a channel whose transfer failed fatally waits in the delete-list for its
\* other transfers to end
C30_Witness ==
    \E c \in Chan :
      /\ chan[c].st = "alive" /\ chan[c].device_hangup
      /\ h[c].fatal
      /\ busy(chan[c])

\* C31: when loop() returns, every channel whose pipein_hangup and
\* pipeout_hangup have both been set by end of file, read or write errors or
\* POLLHUP (its device is present and the caller has not closed it) has been
\* moved from the child-list to the delete-list.
C31_BothHangupsQuarantined ==
    pc = "ret"
      => \A c \in Chan :
           (/\ chan[c].st = "alive"
            /\ chan[c].pipein_hangup /\ chan[c].pipeout_hangup
            /\ ~chan[c].device_hangup /\ ~h[c].closed)
             => Has(delete_list, c) /\ ~Has(child_list, c)

C33_ReadpipeRefused ==
    [][\A c \in Chan :
         (/\ pc = "pend" /\ it < Len(child_list) /\ it' = it + 1
          /\ child_list[it + 1] = c
          /\ chan[c].st = "alive"
          /\ chan[c].pipein_ready
          /\ chan[c].writexfer_busy /\ chan[c].usb[WR] = "submitted")
           => /\ h'[c].rin = h[c].rin
              /\ chan'[c].pipein_hangup = chan[c].pipein_hangup
              /\ chan'[c].wbuf = chan[c].wbuf
              /\ chan'[c].wlen = chan[c].wlen]_vars

\* C34: once poll_events of a loop() call has returned, every descriptor for
\* which its poll(2) reported revents and which belongs to a live channel has
\* been removed from the poll-list by that same call.
C34_ReportedRemoved ==
    pc = "usb1"
      => \A k \in 1..Len(poll_list) :
           poll_list[k].revents # {}
             => ~\E c \in Chan :
                   /\ Has(child_list, c) /\ chan[c].st = "alive"
                   /\ ~Has(delete_list, c)
                   /\ (chan[c].fdrd = poll_list[k].fd \/ chan[c].fdrw = poll_list[k].fd)

\* C35: a thread that is at a place where it modifies the child-list (USB
\* callbacks in handle_events, event dispatch, attach / pipe, close) holds the
\* channel-list lock exclusively, and no other thread is iterating the list
\* under the read lock.
C35_ExclusiveMutation ==
    \A T \in Threads :
      api.pos[T] \in {"polling", "dispatch", "attach", "closing"}
        => /\ api.pos[T] = "closing" /\ api.big = T
           /\ \A U \in Threads \ {T} : api.pos[U] \notin {"in", "dispatch"}

\* C36: a thread that is at a place where it reads or modifies the poll-list
\* (poll and USB callbacks in handle_events, event dispatch, the sweep, init()
\* inside attach) holds the poll-list mutex; in particular no facade thread is
\* inside attach while the loop thread is polling.
C36_PollListLocked ==
    /\ \A T \in Threads :
         api.pos[T] \in {"polling", "dispatch", "sweep", "attach"} => api.pm = T
    /\ api.pos["loop"] = "polling" => \A T \in Threads : api.pos[T] # "attach"

\* C37: while the loop thread runs the quarantine sweep, no facade thread is
\* inside status, reset or sendbreak with the shared lock held.
C37_SweepAlone ==
    api.pos["loop"] = "sweep" => \A T \in Threads : api.pos[T] # "in"

\* C38: under fair scheduling every loop() call and every facade call
\* eventually returns, also when upgrade is requested while other readers hold
\* the shared lock.
C38_CallsReturn ==
    \A T \in Threads : []<>(api.pos[T] \in {"idle", "out"})

\* C39: while the IN transfer that current designates holds data not yet
\* written, every byte written to fd_write is taken from that transfer; current
\* changes only when that transfer has been drained, switching to the other IN
\* transfer.
C39_WritesFromCurrent ==
    [][\A c \in Chan :
         (chan[c].st = "alive" /\ chan'[c].st = "alive")
           => LET cur == chan[c].current
              IN /\ (/\ chan[c].usb[cur] = "idle" /\ ~chan[c].readxfer_busy[cur]
                     /\ chan[c].readpos[cur] < chan[c].ralen[cur])
                      => \A k \in (Len(h[c].fdw) + 1)..Len(h'[c].fdw) :
                           \E j \in 1..chan[c].ralen[cur] :
                             chan[c].rbuf[cur][j] = h'[c].fdw[k]
                 /\ chan'[c].current # cur
                      => /\ chan'[c].current = 1 - cur
                         /\ chan'[c].readpos[cur] >= chan'[c].ralen[cur]]_vars

\* C40: hang-up flags are never cleared: as long as a channel exists, an ok-bit
\* absent from its status stays absent, so of two successive status(ch) calls
\* that find it the later reports no ok-bit the earlier did not.
C40_StatusSticky ==
    [][\A c \in Chan :
         (chan[c].st = "alive" /\ chan'[c].st = "alive")
           => \A b \in {read_pipe_ok, write_pipe_ok, usb_dev_ok} :
                Bit(file_channel_status(chan'[c]), b) => Bit(file_channel_status(chan[c]), b)]_vars

\* status(ch) found the channel and reported a pipe hung up while the device is
\* present
C40_Witness ==
    /\ api.op = "status"
    /\ api.ret \in {usb_dev_ok, usb_dev_ok + read_pipe_ok, usb_dev_ok + write_pipe_ok}

====
